---- MODULE Spec2Model ----
(***************************************************************************)
(* Model of koverage/scripts/minimapWrapper.py: the threaded pipeline that *)
(* reads minimap2 output, counts hits per contig and per bin, computes the *)
(* per-contig statistics in a pool of workers and writes the counts file,  *)
(* the library-size file and (optionally) the zstd archive of the records. *)
(*                                                                         *)
(* Every thread of main() is a process of the model; every queue.get and   *)
(* queue.put is a step.  An uncaught exception ends the thread that raised *)
(* it (pc "crashed") and nothing else, as threading.Thread does.           *)
(***************************************************************************)
EXTENDS Integers, Sequences, FiniteSets, TLC

\* ------------------------------------------------------------------ bounds
MaxStream == 2        \* longest input stream (records minimap2 emits)
MaxThreads == 2       \* largest pool size kwargs["threads"]
MaxChunk == 2         \* largest chunk_size given to worker_paf_writer
MaxStderr == 2        \* most blocks of diagnostic text minimap2 writes to stderr
PipeCapacity == 1     \* blocks the stderr pipe holds while nobody reads it

\* ------------------------------------------------------------- input space
ContigIds == <<"c1", "c2">>
Starts == {0, 2}

\* A line of minimap2 output as bytes: nf whitespace-separated fields, field 5
\* the target id, field 7 the target start (an integer literal or not).
PafLine(nf, tid, isint, start) ==
    [kind |-> "bytes", nf |-> nf, tid |-> tid, isint |-> isint, start |-> start]

FullFields == 12
ShortFields == 3

RawLines ==
    {PafLine(FullFields, ContigIds[1], TRUE, s) : s \in Starts}
      \cup {PafLine(FullFields, ContigIds[2], TRUE, 0),
            PafLine(ShortFields, ContigIds[1], TRUE, 0),
            PafLine(FullFields, ContigIds[1], FALSE, 0)}

RECURSIVE SeqsUpTo(_, _)
SeqsUpTo(S, n) ==
    IF n = 0 THEN {<<>>}
    ELSE LET shorter == SeqsUpTo(S, n - 1)
         IN shorter \cup {Append(s, x) : s \in {t \in shorter : Len(t) = n - 1}, x \in S}

\* The .fai tables contig_lens_from_fai can return (an ordered dict, ids unique)
\* with the bin widths they are run with: the valid configurations, and one of
\* each kind the data model excludes (no contig, width 0, negative width).
Fai(l1, l2) == <<[id |-> ContigIds[1], length |-> l1], [id |-> ContigIds[2], length |-> l2]>>

ValidConfigs ==
    {[bin_width |-> 2, fai |-> <<[id |-> ContigIds[1], length |-> 1]>>],
     [bin_width |-> 2, fai |-> Fai(1, 1)],
     [bin_width |-> 2, fai |-> Fai(3, 1)]}

InvalidConfigs ==
    {[bin_width |-> 2, fai |-> <<>>],
     [bin_width |-> 0, fai |-> Fai(1, 1)],
     [bin_width |-> -2, fai |-> Fai(3, 1)]}

\* ------------------------------------------------------------------- state
VARIABLES
    stream,             \* what minimap2 writes to stdout, line by line
    contig_lens,        \* contig_lens_from_fai(kwargs["ref_fai"])
    bin_width,          \* kwargs["bin_width"]
    threads,            \* kwargs["threads"]
    save_pafs,          \* kwargs["save_pafs"]
    chunk_size,         \* worker_paf_writer's chunk_size
    queue_counts, queue_paf, queue_bins, queue_output,
    readerPc, rpos,     \* thread_reader and the number of lines it has read
    sent_counts, sent_paf,   \* everything the reader has put on each queue
    pafPc, lines, archive,   \* thread_parser_paf, its batch, the .paf.zst file
    aggPc, contig_counts, contig_bin_counts, total_count,
    dequeued,           \* records thread_parser_counts took off queue_counts
    emitIdx,            \* loop index of the two closing loops of the aggregator
    summaries,          \* every ContigSummary put on queue_bins
    libFile,            \* what was written to kwargs["output_lib"], write by write
    wPc, wItem,         \* the calculate_metrics threads and the item each holds
    writerPc, countsFile,    \* print_output and kwargs["output_counts"]
    mainPc, stdoutClosed, returncode, logged,
    run,                \* 1 in the first run of main, 2 in a second run on the same input
    prev_counts, prev_lib,   \* the two output files as the first run left them
    srcPc,              \* pipe_minimap, the minimap2 process: "running" or "exited"
    emitted,            \* lines of stream minimap2 has written to its stdout pipe
    err_todo,           \* blocks of diagnostic text minimap2 has yet to write to stderr
    err_buf             \* blocks waiting in the stderr pipe

configVars == <<stream, contig_lens, bin_width, threads, save_pafs, chunk_size,
                run, prev_counts, prev_lib>>
queueVars == <<queue_counts, queue_paf, queue_bins, queue_output>>
readerVars == <<readerPc, rpos, sent_counts, sent_paf>>
pafVars == <<pafPc, lines, archive>>
aggVars == <<aggPc, contig_counts, contig_bin_counts, total_count, dequeued, emitIdx,
             summaries, libFile>>
workerVars == <<wPc, wItem>>
writerVars == <<writerPc, countsFile>>
mainVars == <<mainPc, stdoutClosed, returncode, logged>>
sourceVars == <<srcPc, emitted, err_todo, err_buf>>

vars == <<configVars, queueVars, readerVars, pafVars, aggVars, workerVars, writerVars,
          mainVars, sourceVars>>

\* ----------------------------------------------------------------- helpers
None == [kind |-> "none"]

IsNone(x) == x.kind = "none"

\* bytes.decode() and str.encode(): the same text, the other type.
decode(b) == [b EXCEPT !.kind = "str"]

encode(s) == [s EXCEPT !.kind = "bytes"]

Abs(a) == IF a < 0 THEN -a ELSE a

\* int(a / b) of Python: true division, then truncation towards zero.
IntDiv(a, b) ==
    IF (a >= 0) = (b > 0) THEN Abs(a) \div Abs(b) ELSE -(Abs(a) \div Abs(b))

\* [0] * n
Zeros(n) == [i \in 1..(IF n > 0 THEN n ELSE 0) |-> 0]

RECURSIVE SumSeq(_)
SumSeq(s) == IF s = <<>> THEN 0 ELSE Head(s) + SumSeq(Tail(s))

Keys(table) == {table[i].id : i \in 1..Len(table)}

\* list[i] of Python accepts -len <= i < len and raises IndexError otherwise.
InRange(list, i) == -Len(list) <= i /\ i < Len(list)

Position(list, i) == IF i >= 0 THEN i + 1 ELSE Len(list) + i + 1

\* ------------------------------------------------------------------- Init
\* main() up to thread_parser_counts.start(): queues empty, every thread
\* started, both output files not yet written.
Started ==
    /\ queue_counts = <<>> /\ queue_paf = <<>> /\ queue_bins = <<>> /\ queue_output = <<>>
    /\ readerPc = "read" /\ rpos = 0 /\ sent_counts = <<>> /\ sent_paf = <<>>
    /\ pafPc = (IF save_pafs THEN "loop" ELSE "off") /\ lines = <<>> /\ archive = <<>>
    /\ aggPc = "init"
    /\ contig_counts = <<>> /\ contig_bin_counts = <<>> /\ total_count = 0
    /\ dequeued = 0 /\ emitIdx = 0 /\ summaries = <<>> /\ libFile = <<>>
    /\ wPc = [i \in 1..threads |-> "get"] /\ wItem = [i \in 1..threads |-> None]
    /\ writerPc = "loop" /\ countsFile = <<>>
    /\ mainPc = "join_counts" /\ stdoutClosed = FALSE /\ returncode = 0 /\ logged = FALSE

Inputs ==
    /\ stream \in SeqsUpTo(RawLines, MaxStream)
    /\ \E cfg \in ValidConfigs \cup InvalidConfigs :
         contig_lens = cfg.fai /\ bin_width = cfg.bin_width
    /\ threads \in 1..MaxThreads
    /\ save_pafs \in BOOLEAN
    /\ chunk_size \in (IF save_pafs THEN 1..MaxChunk ELSE {1})
    /\ run = 1 /\ prev_counts = <<>> /\ prev_lib = <<>>

\* minimap2 has written its whole output to the stdout pipe, nothing to stderr,
\* and has exited: the pipeline runs on a complete stream.
SourceFinished ==
    /\ srcPc = "exited" /\ emitted = Len(stream) /\ err_todo = 0 /\ err_buf = 0

Init == Inputs /\ Started /\ SourceFinished

\* ------------------------------------------------- thread_reader (the Tee)
\* worker_mm_to_count_queues: one line read from the pipe and put on the queue.
worker_mm_to_count_queues_line ==
    /\ ~save_pafs /\ readerPc = "read" /\ ~stdoutClosed
    /\ rpos < emitted
    /\ queue_counts' = Append(queue_counts, decode(stream[rpos + 1]))
    /\ sent_counts' = Append(sent_counts, decode(stream[rpos + 1]))
    /\ rpos' = rpos + 1
    /\ UNCHANGED <<readerPc, sent_paf, queue_paf, queue_bins, queue_output>>
    /\ UNCHANGED <<configVars, sourceVars, pafVars, aggVars, workerVars, writerVars, mainVars>>

\* readline returned b"": the closing None.
worker_mm_to_count_queues_eof ==
    /\ ~save_pafs /\ readerPc = "read" /\ ~stdoutClosed
    /\ rpos = emitted /\ srcPc = "exited"
    /\ queue_counts' = Append(queue_counts, None)
    /\ sent_counts' = Append(sent_counts, None)
    /\ readerPc' = "done"
    /\ UNCHANGED <<rpos, sent_paf, queue_paf, queue_bins, queue_output>>
    /\ UNCHANGED <<configVars, sourceVars, pafVars, aggVars, workerVars, writerVars, mainVars>>

\* worker_mm_to_count_paf_queues: one line read, decoded once and put on both
\* queues.  The two puts are one step: a put on an unbounded Queue() never
\* blocks and no other thread puts on these queues.
worker_mm_to_count_paf_queues_line ==
    /\ save_pafs /\ readerPc = "read" /\ ~stdoutClosed
    /\ rpos < emitted
    /\ LET line == decode(stream[rpos + 1])
       IN /\ queue_counts' = Append(queue_counts, line)
          /\ sent_counts' = Append(sent_counts, line)
          /\ queue_paf' = Append(queue_paf, line)
          /\ sent_paf' = Append(sent_paf, line)
    /\ rpos' = rpos + 1
    /\ UNCHANGED <<readerPc, queue_bins, queue_output>>
    /\ UNCHANGED <<configVars, sourceVars, pafVars, aggVars, workerVars, writerVars, mainVars>>

\* worker_mm_to_count_paf_queues_eof closing count_queue only.
worker_mm_to_count_paf_queues_eof_count_only ==
    /\ save_pafs /\ readerPc = "read" /\ ~stdoutClosed
    /\ rpos = emitted /\ srcPc = "exited"
    /\ queue_counts' = Append(queue_counts, None)
    /\ sent_counts' = Append(sent_counts, None)
    /\ readerPc' = "done"
    /\ UNCHANGED <<rpos, queue_paf, sent_paf, queue_bins, queue_output>>
    /\ UNCHANGED <<configVars, sourceVars, pafVars, aggVars, workerVars, writerVars, mainVars>>

\* for q in [count_queue, paf_queue]: q.put(None)
worker_mm_to_count_paf_queues_eof ==
    /\ save_pafs /\ readerPc = "read" /\ ~stdoutClosed
    /\ rpos = emitted /\ srcPc = "exited"
    /\ queue_counts' = Append(queue_counts, None)
    /\ sent_counts' = Append(sent_counts, None)
    /\ queue_paf' = Append(queue_paf, None)
    /\ sent_paf' = Append(sent_paf, None)
    /\ readerPc' = "done"
    /\ UNCHANGED <<rpos, queue_bins, queue_output>>
    /\ UNCHANGED <<configVars, sourceVars, pafVars, aggVars, workerVars, writerVars, mainVars>>

\* pipe.stdout.readline after main closed pipe.stdout: ValueError, uncaught.
reader_readline_closed ==
    /\ readerPc = "read" /\ stdoutClosed
    /\ readerPc' = "crashed"
    /\ UNCHANGED <<rpos, sent_counts, sent_paf, queueVars>>
    /\ UNCHANGED <<configVars, sourceVars, pafVars, aggVars, workerVars, writerVars, mainVars>>

\* --------------------------------------- thread_parser_paf (ArchiveWriter)
\* cctx.compress(b"".join(lines)): ZstdCompressor.compress returns one complete
\* frame holding the joined lines.
compress(chunk) == [kind |-> "frame", data |-> chunk]

\* What decompressing the file frame after frame gives back.
RECURSIVE Decompress(_)
Decompress(file) ==
    IF file = <<>> THEN <<>> ELSE Head(file).data \o Decompress(Tail(file))

\* FinalChunk with the "if lines:" block left out: the partial chunk is dropped.
FinalChunk_dropped(file, batch) == file

\* if lines: write the last, partial chunk
FinalChunk(file, batch) ==
    IF batch # <<>> THEN Append(file, compress(batch)) ELSE file

worker_paf_writer ==
    /\ pafPc = "loop" /\ queue_paf # <<>>
    /\ LET line == Head(queue_paf)
           batch == Append(lines, encode(line))
       IN IF IsNone(line)
            THEN /\ archive' = FinalChunk(archive, lines)
                 /\ pafPc' = "done"
                 /\ UNCHANGED lines
            ELSE /\ IF Len(batch) >= chunk_size
                      THEN archive' = Append(archive, compress(batch)) /\ lines' = <<>>
                      ELSE archive' = archive /\ lines' = batch
                 /\ UNCHANGED pafPc
    /\ queue_paf' = Tail(queue_paf)
    /\ UNCHANGED <<queue_counts, queue_bins, queue_output>>
    /\ UNCHANGED <<configVars, sourceVars, readerVars, aggVars, workerVars, writerVars, mainVars>>

\* ------------------------------------ thread_parser_counts (CountAggregator)
\* lines 175-181: the accumulators; kwargs["bin_width"] == 0 raises
\* ZeroDivisionError on the first contig.
worker_count_and_print_init ==
    /\ aggPc = "init"
    /\ IF contig_lens # <<>> /\ bin_width = 0
         THEN /\ aggPc' = "crashed"
              /\ UNCHANGED <<contig_counts, contig_bin_counts>>
         ELSE /\ aggPc' = "loop"
              /\ contig_counts' = [c \in Keys(contig_lens) |-> 0]
              /\ contig_bin_counts' =
                   [c \in Keys(contig_lens) |->
                      LET i == CHOOSE j \in 1..Len(contig_lens) : contig_lens[j].id = c
                      IN Zeros(IntDiv(contig_lens[i].length, bin_width) + 1)]
    /\ UNCHANGED <<total_count, dequeued, emitIdx, summaries, libFile>>
    /\ UNCHANGED <<configVars, sourceVars, queueVars, readerVars, pafVars, workerVars, writerVars,
                   mainVars>>

\* EndOfStream with "except Exception" around the whole parse: a line with too
\* few fields or a non-integer start ends the loop like None does.
EndOfStream_any_exception(line) ==
    IsNone(line) \/ line.nf < 8 \/ ~line.isint

\* line.strip() raises AttributeError: only None has no strip.
EndOfStream(line) == IsNone(line)

\* contig_counts[l[5]] += 1 goes through: l has a field 5 and it is a key.
CountOk(l, counts) == l.nf >= 6 /\ l.tid \in DOMAIN counts

\* BinIndex without the division by bin_width.
BinIndex_no_division(l, width) == l.start

\* int(int(l[7]) / bin_width), the index into the contig's bins
BinIndex(l, width) == IntDiv(l.start, width)

\* contig_bin_counts[l[5]][...] += 1 goes through
BinOk(l, bins, width) ==
    /\ l.nf >= 8
    /\ l.isint
    /\ InRange(bins, BinIndex(l, width))

\* IncrCount with = in place of +=.
IncrCount_assign(counts, c) == [counts EXCEPT ![c] = 1]

\* contig_counts[l[5]] += 1
IncrCount(counts, c) == [counts EXCEPT ![c] = @ + 1]

\* IncrBin with = in place of +=.
IncrBin_assign(bins, i) == [bins EXCEPT ![Position(bins, i)] = 1]

\* contig_bin_counts[l[5]][i] += 1
IncrBin(bins, i) == [bins EXCEPT ![Position(bins, i)] = @ + 1]

worker_count_and_print_record ==
    /\ aggPc = "loop" /\ queue_counts # <<>>
    /\ LET l == Head(queue_counts)
       IN /\ queue_counts' = Tail(queue_counts)
          /\ IF EndOfStream(l)
               THEN /\ aggPc' = (IF contig_lens # <<>> THEN "emit" ELSE "close")
                    /\ UNCHANGED <<contig_counts, contig_bin_counts, total_count, dequeued>>
               ELSE /\ dequeued' = dequeued + 1
                    /\ IF ~CountOk(l, contig_counts)
                         THEN /\ aggPc' = "crashed"
                              /\ UNCHANGED <<contig_counts, contig_bin_counts, total_count>>
                         ELSE /\ contig_counts' = IncrCount(contig_counts, l.tid)
                              /\ IF ~BinOk(l, contig_bin_counts[l.tid], bin_width)
                                   THEN /\ aggPc' = "crashed"
                                        /\ UNCHANGED <<contig_bin_counts, total_count>>
                                   ELSE /\ contig_bin_counts' =
                                             [contig_bin_counts EXCEPT ![l.tid] =
                                                IncrBin(@, BinIndex(l, bin_width))]
                                        /\ total_count' = total_count + 1
                                        /\ UNCHANGED aggPc
    /\ emitIdx' = 0
    /\ UNCHANGED <<summaries, libFile, queue_paf, queue_bins, queue_output>>
    /\ UNCHANGED <<configVars, sourceVars, readerVars, pafVars, workerVars, writerVars, mainVars>>

\* [c, contig_lengths[c], contig_counts[c], contig_bin_counts[c]]
ContigSummary(i) ==
    [kind |-> "contig", id |-> contig_lens[i].id, length |-> contig_lens[i].length,
     count |-> contig_counts[contig_lens[i].id],
     bins |-> contig_bin_counts[contig_lens[i].id]]

\* for c in contig_counts.keys(): bin_queue.put(...)
worker_count_and_print_emit ==
    /\ aggPc = "emit"
    /\ queue_bins' = Append(queue_bins, ContigSummary(emitIdx + 1))
    /\ summaries' = Append(summaries, ContigSummary(emitIdx + 1))
    /\ IF emitIdx + 1 < Len(contig_lens)
         THEN emitIdx' = emitIdx + 1 /\ UNCHANGED aggPc
         ELSE emitIdx' = 0 /\ aggPc' = "close"
    /\ UNCHANGED <<contig_counts, contig_bin_counts, total_count, dequeued, libFile>>
    /\ UNCHANGED <<queue_counts, queue_paf, queue_output>>
    /\ UNCHANGED <<configVars, sourceVars, readerVars, pafVars, workerVars, writerVars, mainVars>>

\* for _ in range(kwargs["threads"]): bin_queue.put(None)
worker_count_and_print_close ==
    /\ aggPc = "close"
    /\ queue_bins' = Append(queue_bins, None)
    /\ IF emitIdx + 1 < threads
         THEN emitIdx' = emitIdx + 1 /\ UNCHANGED aggPc
         ELSE emitIdx' = 0 /\ aggPc' = "lib"
    /\ UNCHANGED <<contig_counts, contig_bin_counts, total_count, dequeued, summaries,
                   libFile>>
    /\ UNCHANGED <<queue_counts, queue_paf, queue_output>>
    /\ UNCHANGED <<configVars, sourceVars, readerVars, pafVars, workerVars, writerVars, mainVars>>

\* out_lib.write(f"{str(total_count)}\n")
worker_count_and_print_lib ==
    /\ aggPc = "lib"
    /\ libFile' = Append(libFile, total_count)
    /\ aggPc' = "done"
    /\ UNCHANGED <<contig_counts, contig_bin_counts, total_count, dequeued, emitIdx,
                   summaries>>
    /\ UNCHANGED <<configVars, sourceVars, queueVars, readerVars, pafVars, workerVars, writerVars,
                   mainVars>>

\* ------------------------------- calculate_metrics (StatisticsWorkerPool)
\* Exact values as fractions <<numerator, denominator>>; "{:.4g}" prints the
\* integers that occur here digit for digit.
RECURSIVE Insert(_, _)
Insert(sorted, x) ==
    IF sorted = <<>> THEN <<x>>
    ELSE IF x <= Head(sorted) THEN <<x>> \o sorted
    ELSE <<Head(sorted)>> \o Insert(Tail(sorted), x)

RECURSIVE Sorted(_)
Sorted(s) == IF s = <<>> THEN <<>> ELSE Insert(Sorted(Tail(s)), Head(s))

\* np.mean(contig[3])
Mean(bins) == <<SumSeq(bins), Len(bins)>>

\* np.median(contig[3])
Median(bins) ==
    LET srt == Sorted(bins)
        n == Len(bins)
    IN <<srt[(n + 1) \div 2] + srt[(n + 2) \div 2], 2>>

\* (len(contig[3]) - contig[3].count(0)) / len(contig[3])
HitRate(bins) == <<Len(bins) - Cardinality({i \in 1..Len(bins) : bins[i] = 0}), Len(bins)>>

Raise(exc) == [kind |-> "raise", exc |-> exc]

\* One pass of the loop body of calculate_metrics, lines 139-155: the line it
\* builds, or the exception it raises.  The hit rate divides by len(contig[3]);
\* numpy has no attribute variance, so line 144 raises AttributeError.
Metrics(contig) ==
    IF Len(contig.bins) = 0 THEN Raise("ZeroDivisionError")
    ELSE IF Len(contig.bins) > 1 THEN Raise("AttributeError")
    ELSE [kind |-> "line", id |-> contig.id, length |-> contig.length,
          count |-> contig.count, mean |-> Mean(contig.bins),
          median |-> Median(contig.bins), hitrate |-> HitRate(contig.bins),
          variance |-> <<0, 1>>]

\* contig = bin_queue.get() and the computation up to output_queue.put
calculate_metrics_get(i) ==
    /\ wPc[i] = "get" /\ queue_bins # <<>>
    /\ LET contig == Head(queue_bins)
       IN IF IsNone(contig)
            THEN wPc' = [wPc EXCEPT ![i] = "close"] /\ UNCHANGED wItem
            ELSE IF Metrics(contig).kind = "raise"
                   THEN wPc' = [wPc EXCEPT ![i] = "crashed"] /\ UNCHANGED wItem
                   ELSE /\ wPc' = [wPc EXCEPT ![i] = "put"]
                        /\ wItem' = [wItem EXCEPT ![i] = Metrics(contig)]
    /\ queue_bins' = Tail(queue_bins)
    /\ UNCHANGED <<queue_counts, queue_paf, queue_output>>
    /\ UNCHANGED <<configVars, sourceVars, readerVars, pafVars, aggVars, writerVars, mainVars>>

\* output_queue.put(line)
calculate_metrics_put(i) ==
    /\ wPc[i] = "put"
    /\ queue_output' = Append(queue_output, wItem[i])
    /\ wPc' = [wPc EXCEPT ![i] = "get"]
    /\ wItem' = [wItem EXCEPT ![i] = None]
    /\ UNCHANGED <<queue_counts, queue_paf, queue_bins>>
    /\ UNCHANGED <<configVars, sourceVars, readerVars, pafVars, aggVars, writerVars, mainVars>>

\* output_queue.put(None), line 157, by every worker that got its None
calculate_metrics_close(i) ==
    /\ wPc[i] = "close"
    /\ queue_output' = Append(queue_output, None)
    /\ wPc' = [wPc EXCEPT ![i] = "done"]
    /\ UNCHANGED <<wItem, queue_counts, queue_paf, queue_bins>>
    /\ UNCHANGED <<configVars, sourceVars, readerVars, pafVars, aggVars, writerVars, mainVars>>

\* ------------------------------------------- print_output (OutputWriter)
print_output ==
    /\ writerPc = "loop" /\ queue_output # <<>>
    /\ LET line == Head(queue_output)
       IN IF ~IsNone(line)
            THEN countsFile' = Append(countsFile, line) /\ UNCHANGED writerPc
            ELSE writerPc' = "done" /\ UNCHANGED countsFile
    /\ queue_output' = Tail(queue_output)
    /\ UNCHANGED <<queue_counts, queue_paf, queue_bins>>
    /\ UNCHANGED <<configVars, sourceVars, readerVars, pafVars, aggVars, workerVars, mainVars>>

\* -------------------------------------------------------------------- main
Ended(pc) == pc \in {"done", "crashed", "off"}

MetricThreadsEnded == Ended(writerPc) /\ \A i \in 1..threads : Ended(wPc[i])

AllThreadsEnded ==
    /\ Ended(readerPc) /\ Ended(pafPc) /\ Ended(aggPc)
    /\ MetricThreadsEnded

\* thread_parser_counts.join()
main_join_counts ==
    /\ mainPc = "join_counts" /\ Ended(aggPc)
    /\ mainPc' = (IF save_pafs THEN "join_paf" ELSE "close_stdout")
    /\ UNCHANGED <<stdoutClosed, returncode, logged>>
    /\ UNCHANGED <<configVars, sourceVars, queueVars, readerVars, pafVars, aggVars, workerVars,
                   writerVars>>

\* if thread_parser_paf: thread_parser_paf.join()
main_join_paf ==
    /\ mainPc = "join_paf" /\ Ended(pafPc)
    /\ mainPc' = "close_stdout"
    /\ UNCHANGED <<stdoutClosed, returncode, logged>>
    /\ UNCHANGED <<configVars, sourceVars, queueVars, readerVars, pafVars, aggVars, workerVars,
                   writerVars>>

\* pipe_minimap.stdout.close()
main_close_stdout ==
    /\ mainPc = "close_stdout"
    /\ stdoutClosed' = TRUE
    /\ mainPc' = "wait"
    /\ UNCHANGED <<returncode, logged>>
    /\ UNCHANGED <<configVars, sourceVars, queueVars, readerVars, pafVars, aggVars, workerVars,
                   writerVars>>

\* pipe_minimap.wait() returns once minimap2 has exited, with the status
\* minimap2 chose; a nonzero one is reported (the two logging.debug calls, the
\* second with pipe_minimap.stderr.read()) and sys.exit(1) raised.
main_wait ==
    /\ mainPc = "wait" /\ srcPc = "exited"
    /\ \E rc \in {0, 1} :
         /\ returncode' = rc
         /\ logged' = (rc # 0)
         /\ err_buf' = (IF rc # 0 THEN 0 ELSE err_buf)
         /\ mainPc' = (IF rc # 0 THEN "shutdown" ELSE "join_rest")
    /\ UNCHANGED <<stdoutClosed, srcPc, emitted, err_todo>>
    /\ UNCHANGED <<configVars, queueVars, readerVars, pafVars, aggVars, workerVars,
                   writerVars>>

\* thread_reader.join(), then for thread in metric_worker_threads: thread.join();
\* main returns and the process ends with status 0.
main_join_rest ==
    /\ mainPc = "join_rest"
    /\ Ended(readerPc) /\ MetricThreadsEnded
    /\ mainPc' = "exited"
    /\ UNCHANGED <<stdoutClosed, returncode, logged>>
    /\ UNCHANGED <<configVars, sourceVars, queueVars, readerVars, pafVars, aggVars, workerVars,
                   writerVars>>

\* After sys.exit(1) the interpreter still waits for every non-daemon thread
\* before the process ends with status 1.
main_exit ==
    /\ mainPc = "shutdown" /\ AllThreadsEnded
    /\ mainPc' = "exited"
    /\ UNCHANGED <<stdoutClosed, returncode, logged>>
    /\ UNCHANGED <<configVars, sourceVars, queueVars, readerVars, pafVars, aggVars, workerVars,
                   writerVars>>

ExitStatus == IF logged THEN 1 ELSE 0

\* ----------------------------------------------------------- specification
Next ==
    \/ worker_mm_to_count_queues_line
    \/ worker_mm_to_count_queues_eof
    \/ worker_mm_to_count_paf_queues_line
    \/ worker_mm_to_count_paf_queues_eof
    \/ reader_readline_closed
    \/ worker_paf_writer
    \/ worker_count_and_print_init
    \/ worker_count_and_print_record
    \/ worker_count_and_print_emit
    \/ worker_count_and_print_close
    \/ worker_count_and_print_lib
    \/ \E i \in 1..threads : calculate_metrics_get(i)
    \/ \E i \in 1..threads : calculate_metrics_put(i)
    \/ \E i \in 1..threads : calculate_metrics_close(i)
    \/ print_output
    \/ main_join_counts
    \/ main_join_paf
    \/ main_close_stdout
    \/ main_wait
    \/ main_join_rest
    \/ main_exit

Spec == Init /\ [][Next]_vars

\* main() run once more on the same input after the first run has come to rest:
\* both output files are opened with "w", every thread and queue is new.
Rerun ==
    /\ run = 1 /\ ~ENABLED Next
    /\ run' = 2 /\ prev_counts' = countsFile /\ prev_lib' = libFile
    /\ UNCHANGED <<stream, contig_lens, bin_width, threads, save_pafs, chunk_size>>
    /\ queue_counts' = <<>> /\ queue_paf' = <<>> /\ queue_bins' = <<>> /\ queue_output' = <<>>
    /\ readerPc' = "read" /\ rpos' = 0 /\ sent_counts' = <<>> /\ sent_paf' = <<>>
    /\ pafPc' = (IF save_pafs THEN "loop" ELSE "off") /\ lines' = <<>> /\ archive' = <<>>
    /\ aggPc' = "init"
    /\ contig_counts' = <<>> /\ contig_bin_counts' = <<>> /\ total_count' = 0
    /\ dequeued' = 0 /\ emitIdx' = 0 /\ summaries' = <<>> /\ libFile' = <<>>
    /\ wPc' = [i \in 1..threads |-> "get"] /\ wItem' = [i \in 1..threads |-> None]
    /\ writerPc' = "loop" /\ countsFile' = <<>>
    /\ mainPc' = "join_counts" /\ stdoutClosed' = FALSE /\ returncode' = 0 /\ logged' = FALSE
    /\ srcPc' = "exited" /\ emitted' = Len(stream) /\ err_todo' = 0 /\ err_buf' = 0

NextTwoRuns == Next \/ Rerun

SpecTwoRuns == Init /\ [][NextTwoRuns]_vars

\* ------------------------------------------- pipe_minimap (the RecordSource)
\* subprocess.Popen(mm2cmd, stdout=PIPE, stderr=PIPE): minimap2 runs beside the
\* threads, writing records to the stdout pipe and diagnostic text to the
\* stderr pipe in any interleaving.  Nothing reads the stderr pipe before
\* pipe_minimap.wait() has returned, so a write to it blocks once the pipe is
\* full.
minimap2_write_stdout ==
    /\ srcPc = "running" /\ ~stdoutClosed
    /\ emitted < Len(stream)
    /\ emitted' = emitted + 1
    /\ UNCHANGED <<srcPc, err_todo, err_buf>>
    /\ UNCHANGED <<configVars, queueVars, readerVars, pafVars, aggVars, workerVars,
                   writerVars, mainVars>>

\* A write to the stdout pipe after main closed its read end: SIGPIPE.
minimap2_sigpipe ==
    /\ srcPc = "running" /\ stdoutClosed
    /\ emitted < Len(stream)
    /\ srcPc' = "exited"
    /\ UNCHANGED <<emitted, err_todo, err_buf>>
    /\ UNCHANGED <<configVars, queueVars, readerVars, pafVars, aggVars, workerVars,
                   writerVars, mainVars>>

minimap2_write_stderr ==
    /\ srcPc = "running"
    /\ err_todo > 0 /\ err_buf < PipeCapacity
    /\ err_todo' = err_todo - 1
    /\ err_buf' = err_buf + 1
    /\ UNCHANGED <<srcPc, emitted>>
    /\ UNCHANGED <<configVars, queueVars, readerVars, pafVars, aggVars, workerVars,
                   writerVars, mainVars>>

\* Everything written: minimap2 exits, which closes its end of both pipes.
minimap2_exit ==
    /\ srcPc = "running"
    /\ emitted = Len(stream) /\ err_todo = 0
    /\ srcPc' = "exited"
    /\ UNCHANGED <<emitted, err_todo, err_buf>>
    /\ UNCHANGED <<configVars, queueVars, readerVars, pafVars, aggVars, workerVars,
                   writerVars, mainVars>>

\* main() from Popen on: minimap2 has just been started.
InitStderr ==
    /\ Inputs /\ Started
    /\ srcPc = "running" /\ emitted = 0 /\ err_buf = 0
    /\ err_todo \in 0..MaxStderr

NextStderr ==
    \/ Next
    \/ minimap2_write_stdout
    \/ minimap2_sigpipe
    \/ minimap2_write_stderr
    \/ minimap2_exit

SpecStderr == InitStderr /\ [][NextStderr]_vars

\* ------------------------------------------------- what the claims speak of
\* The data model's configuration: bin_width > 0 and a non-empty ContigIndex.
ValidConfig == bin_width > 0 /\ contig_lens # <<>>

NumBins(i) == (contig_lens[i].length \div bin_width) + 1

\* A record the data model accepts: enough fields, an integer non-negative
\* start, a target id of the ContigIndex, a bin index inside the histogram.
ValidRecord(l) ==
    /\ l.nf >= 8 /\ l.isint /\ l.start >= 0
    /\ \E i \in 1..Len(contig_lens) :
         contig_lens[i].id = l.tid /\ (l.start \div bin_width) < NumBins(i)

ValidStream == \A k \in 1..Len(stream) : ValidRecord(stream[k])

Malformed(l) == ~ValidRecord(l)

\* The run can take no further step.
Quiescent == ~ENABLED Next

\* The process has ended and reported a failure.
FailedCleanly == mainPc = "exited" /\ AllThreadsEnded /\ ExitStatus # 0

LinesFor(c) == {j \in 1..Len(countsFile) : countsFile[j].id = c}

\* One line per ContigIndex entry in the counts file, no more.
CountsComplete ==
    /\ Len(countsFile) = Len(contig_lens)
    /\ \A i \in 1..Len(contig_lens) : Cardinality(LinesFor(contig_lens[i].id)) = 1

RECURSIVE SumCounts(_)
SumCounts(msgs) == IF msgs = <<>> THEN 0 ELSE Head(msgs).count + SumCounts(Tail(msgs))

IsPrefix(a, b) == Len(a) <= Len(b) /\ \A k \in 1..Len(a) : a[k] = b[k]

\* The aggregator has taken the closing None off queue_counts.
SentinelDequeued ==
    /\ sent_counts # <<>> /\ IsNone(sent_counts[Len(sent_counts)])
    /\ queue_counts = <<>>

\* ------------------------------------------------------------------ claims
\* C1: for a valid stream, a non-empty ContigIndex and any pool size, when the
\* OutputWriter terminates the counts file holds exactly one line per
\* ContigIndex entry: no OutputLine is lost and none is written twice.
C1_OneLinePerContig ==
    (ValidConfig /\ ValidStream /\ writerPc = "done") => CountsComplete

\* C2: the LibrarySize written equals the sum of the counts carried by the
\* emitted ContigSummary messages and the number of records dequeued from the
\* counting queue before the sentinel.
C2_LibrarySizeIsSum ==
    \A k \in 1..Len(libFile) :
        /\ libFile[k] = SumCounts(summaries)
        /\ libFile[k] = dequeued
        /\ Len(summaries) = Len(contig_lens)

C2_Witness ==
    /\ libFile = <<2>>
    /\ Len(summaries) = 2
    /\ summaries[1].count = 1 /\ summaries[2].count = 1

\* C3: for every contig the sum of the bin histogram equals the count, after
\* each fully processed record and in every ContigSummary put on the bin queue.
C3_BinsSumToCount ==
    /\ aggPc \notin {"init", "crashed"} =>
         \A c \in DOMAIN contig_counts : SumSeq(contig_bin_counts[c]) = contig_counts[c]
    /\ \A k \in 1..Len(summaries) : SumSeq(summaries[k].bins) = summaries[k].count
    /\ \A k \in 1..Len(queue_bins) :
         ~IsNone(queue_bins[k]) => SumSeq(queue_bins[k].bins) = queue_bins[k].count

C3_Witness ==
    /\ aggPc = "loop" /\ total_count = 2
    /\ \E c \in DOMAIN contig_counts :
         contig_counts[c] = 2 /\ contig_bin_counts[c] = <<1, 1>>

\* C4: LibrarySize is written only after the aggregator has dequeued the
\* end-of-stream sentinel, hence after every record the reader put on the
\* counting queue has been counted, and it is written at most once.
C4_LibrarySizeAfterDrain ==
    /\ Len(libFile) <= 1
    /\ libFile # <<>> =>
         /\ SentinelDequeued
         /\ rpos = Len(stream)
         /\ total_count = Len(sent_counts) - 1
         /\ total_count = Len(stream)
         /\ libFile[1] = Len(stream)

C4_Witness ==
    /\ libFile # <<>> /\ Len(stream) = 2 /\ SentinelDequeued
    /\ aggPc = "done" /\ mainPc = "join_counts"

\* C5: a malformed record aborts the whole pipeline: once the aggregator has
\* dequeued one, the run does not come to rest before every component has
\* stopped and the process has ended in failure.
C5_MalformedAborts ==
    (ValidConfig /\ aggPc = "crashed" /\ dequeued > 0 /\ Quiescent) => FailedCleanly

\* C6: when RecordSource exits nonzero after a valid prefix, the failure is
\* surfaced only after all queued work has drained (records counted, every
\* summary written as an OutputLine, LibrarySize written, archive closed), and
\* the pipeline does not hang.
C6_DrainThenFail ==
    (ValidConfig /\ ValidStream /\ returncode # 0) =>
        /\ mainPc = "exited" =>
             /\ total_count = Len(stream) /\ libFile = <<Len(stream)>>
             /\ save_pafs => (pafPc = "done" /\ Decompress(archive) = stream)
             /\ writerPc = "done" /\ CountsComplete
        /\ Quiescent => FailedCleanly

\* C7: with bin_width <= 0 or an empty ContigIndex nothing is processed (no
\* record dequeued, no ContigSummary, no counts line, no LibrarySize) and the
\* pipeline stops in a failure state.
C7_ConfigErrorStops ==
    ~ValidConfig =>
        /\ dequeued = 0 /\ summaries = <<>> /\ countsFile = <<>> /\ libFile = <<>>
        /\ Quiescent => FailedCleanly

\* C8: two runs over the same input stream, ContigIndex, bin_width and pool
\* size leave the same counts file up to line order and the same LibrarySize,
\* whatever the two schedules.
Occurrences(file, x) == Cardinality({k \in 1..Len(file) : file[k] = x})

SameLines(f, g) ==
    /\ Len(f) = Len(g)
    /\ \A k \in 1..Len(f) : Occurrences(f, f[k]) = Occurrences(g, f[k])

C8_SameOutputTwice ==
    (ValidConfig /\ ValidStream /\ run = 2 /\ ~ENABLED Next) =>
        (SameLines(countsFile, prev_counts) /\ libFile = prev_lib)

\* C9: with archival enabled, the batches written to the archive, decompressed
\* and concatenated, are the input records in input order, none dropped or
\* duplicated; the last, partial batch is written before the file is closed.
C9_ArchiveRoundTrip ==
    save_pafs =>
        /\ IsPrefix(Decompress(archive), stream)
        /\ pafPc = "loop" =>
             Decompress(archive) \o lines = SubSeq(stream, 1, Len(sent_paf) - Len(queue_paf))
        /\ \A k \in 1..Len(archive) :
             /\ Len(archive[k].data) <= chunk_size
             /\ Len(archive[k].data) >= 1
             /\ k < Len(archive) => Len(archive[k].data) = chunk_size
        /\ pafPc = "done" => Decompress(archive) = stream

C9_Witness ==
    /\ save_pafs /\ pafPc = "done"
    /\ Len(stream) = 2 /\ stream[1] # stream[2]
    /\ \/ chunk_size = 1
       \/ Len(archive) = 1 /\ Len(lines) = 0

\* C10: every active channel (the counting queue always, the archive queue when
\* save_pafs is set) receives the input records in input order followed by
\* exactly one closing None; an inactive archive queue receives nothing.
Delivered(sent) ==
    /\ IsPrefix(sent, [k \in 1..Len(stream) |-> decode(stream[k])] \o <<None>>)
    /\ readerPc = "done" => Len(sent) = Len(stream) + 1

C10_Tee ==
    /\ Delivered(sent_counts)
    /\ save_pafs => Delivered(sent_paf)
    /\ ~save_pafs => (sent_paf = <<>> /\ queue_paf = <<>>)

C10_Witness ==
    /\ readerPc = "done" /\ save_pafs
    /\ Len(stream) = 2 /\ stream[1] # stream[2]
    /\ Len(sent_paf) = 3

\* The closing Nones put on output_queue so far: one by every worker that ended
\* on its own None.
ClosingSignalsPut == Cardinality({i \in 1..threads : wPc[i] = "done"})

\* C11: exactly one end-of-stream sentinel is ever put on the output queue, and
\* only after every OutputLine has been put on it.
C11_OneClosingSignal ==
    /\ ClosingSignalsPut <= 1
    /\ ClosingSignalsPut >= 1 => \A i \in 1..threads : wPc[i] # "put"

NonesWaiting == Cardinality({k \in 1..Len(queue_bins) : IsNone(queue_bins[k])})

\* The workers that have taken a None off bin_queue.
GotSentinel == {i \in 1..threads : wPc[i] \in {"close", "done"}}

\* C12: on end-of-stream the aggregator puts one ContigSummary per ContigIndex
\* entry and then exactly N Nones on the bin queue, sentinels after summaries;
\* each of the N workers dequeues exactly one sentinel and ends on it.
C12_SentinelPerWorker ==
    /\ aggPc \in {"lib", "done"} =>
         /\ Len(summaries) = Len(contig_lens)
         /\ NonesWaiting + Cardinality(GotSentinel) = threads
    /\ \A k \in 1..Len(queue_bins) : \A j \in k..Len(queue_bins) :
         IsNone(queue_bins[k]) => IsNone(queue_bins[j])
    /\ (ValidConfig /\ aggPc = "done" /\ Quiescent) =>
         (queue_bins = <<>> /\ \A i \in 1..threads : wPc[i] = "done")

\* C13: for a valid stream, any pool size and either archival setting, every
\* thread ends and main returns: the run never comes to rest with a consumer
\* still waiting on a queue.
C13_EveryThreadEnds ==
    (ValidConfig /\ ValidStream /\ Quiescent) => (mainPc = "exited" /\ AllThreadsEnded)

SummariesWaiting == Cardinality({k \in 1..Len(queue_bins) : ~IsNone(queue_bins[k])})

\* Summaries taken off bin_queue so far.
SummariesTaken == Len(summaries) - SummariesWaiting

\* OutputLines put on output_queue so far: written, or still waiting there.
LinesPut ==
    Len(countsFile) + Cardinality({k \in 1..Len(queue_output) : ~IsNone(queue_output[k])})

Holding == {i \in 1..threads : wPc[i] = "put"}

Crashed == {i \in 1..threads : wPc[i] = "crashed"}

\* C14: each ContigSummary put on the bin queue is dequeued by exactly one
\* worker, exactly once, and none is left on the queue when all workers have
\* ended.
C14_SummaryConsumedOnce ==
    ValidConfig =>
        /\ SummariesTaken = LinesPut + Cardinality(Holding) + Cardinality(Crashed)
        /\ \A i \in Holding : \A j \in Holding : wItem[i].id = wItem[j].id => i = j
        /\ \A k \in 1..Len(countsFile) : Cardinality(LinesFor(countsFile[k].id)) = 1
        /\ (\A i \in 1..threads : Ended(wPc[i])) => SummariesWaiting = 0

\* C15: every ContigSummary a worker dequeues makes it put exactly one
\* OutputLine before its next get, for a contig with one bin (variance 0) and
\* for one with more bins; a worker stops only on its closing signal.
C15_LinePerSummary ==
    ValidConfig =>
        /\ Crashed = {}
        /\ SummariesTaken = LinesPut + Cardinality(Holding)
        /\ \A k \in 1..Len(countsFile) :
             countsFile[k].variance[1] = 0 <=>
               \E i \in 1..Len(contig_lens) :
                 contig_lens[i].id = countsFile[k].id /\ NumBins(i) = 1

\* The records of the input that name contig c, and those of them in bin b
\* (bins numbered from 1 here).
HitsOn(c) == {r \in 1..Len(stream) : stream[r].tid = c}

HitsIn(c, b) == {r \in HitsOn(c) : stream[r].start \div bin_width = b - 1}

\* The loop of lines 183-194 for the records of one contig, given by their
\* target starts, on that contig's bins.
RECURSIVE Accumulate(_, _, _)
Accumulate(bins, starts, width) ==
    IF starts = <<>> THEN bins
    ELSE Accumulate(IncrBin(bins, BinIndex(PafLine(FullFields, "chr1", TRUE, Head(starts)),
                                           width)),
                    Tail(starts), width)

\* The spec's worked example: records at 10, 600 and 700 on a contig of
\* length 1000 with bin_width 500.
ExampleBins == Accumulate(Zeros(IntDiv(1000, 500) + 1), <<10, 600, 700>>, 500)

\* On a valid configuration and stream: the aggregator accepts every record,
\* holds one accumulator per ContigIndex entry with floor(length/bin_width)+1
\* bins, and emits per contig the number of its records and per bin the number
\* of its records whose floor(start/bin_width) is that bin.
AggregationResult ==
    /\ (ValidConfig /\ ValidStream) =>
         /\ aggPc # "crashed"
         /\ aggPc # "init" =>
              /\ DOMAIN contig_bin_counts = Keys(contig_lens)
              /\ \A i \in 1..Len(contig_lens) :
                   Len(contig_bin_counts[contig_lens[i].id]) = NumBins(i)
         /\ \A k \in 1..Len(summaries) :
              /\ summaries[k].id = contig_lens[k].id
              /\ summaries[k].length = contig_lens[k].length
              /\ summaries[k].count = Cardinality(HitsOn(summaries[k].id))
              /\ Len(summaries[k].bins) = NumBins(k)
              /\ \A b \in 1..NumBins(k) :
                   summaries[k].bins[b] = Cardinality(HitsIn(summaries[k].id, b))
    /\ Len(Zeros(IntDiv(250, 100) + 1)) = 3

\* C16 as stated: the aggregation result above, and the worked example gives
\* bins [1, 2] with count 3.
C16_AsStated ==
    /\ AggregationResult
    /\ ExampleBins = <<1, 2>>
    /\ SumSeq(ExampleBins) = 3

\* C16 amended: the aggregation result above, and the worked example gives the
\* floor(1000/500)+1 = 3 bins [1, 2, 0] with count 3.
C16_Aggregation ==
    /\ AggregationResult
    /\ ExampleBins = <<1, 2, 0>>
    /\ SumSeq(ExampleBins) = 3

C16_Witness ==
    /\ ValidConfig /\ ValidStream /\ aggPc = "done"
    /\ Len(summaries) = 2
    /\ summaries[1].bins = <<1, 1>> /\ summaries[1].count = 2
    /\ summaries[2].bins = <<0>> /\ summaries[2].count = 0

\* The items the aggregator has taken off the counting queue so far.
TakenByAggregator == SubSeq(sent_counts, 1, Len(sent_counts) - Len(queue_counts))

DequeuedMalformed ==
    /\ ValidConfig
    /\ \E k \in 1..Len(TakenByAggregator) :
         ~IsNone(TakenByAggregator[k]) /\ Malformed(TakenByAggregator[k])

EndOfStreamActed ==
    \/ summaries # <<>>
    \/ queue_bins # <<>>
    \/ libFile # <<>>
    \/ \E i \in 1..threads : wPc[i] # "get"

\* C17: a dequeued malformed record is never treated as end-of-stream: after
\* it worker_count_and_print emits no ContigSummary, puts no closing signal on
\* the bin queue and writes no LibrarySize; those happen only after the None
\* sentinel has been dequeued.
C17_MalformedIsNotEndOfStream ==
    /\ DequeuedMalformed =>
         /\ aggPc = "crashed"
         /\ ~EndOfStreamActed
    /\ (EndOfStreamActed \/ aggPc \in {"emit", "close", "lib", "done"}) =>
         /\ SentinelDequeued
         /\ \A k \in 1..Len(TakenByAggregator) - 1 : ~IsNone(TakenByAggregator[k])

C17_Witness ==
    /\ DequeuedMalformed /\ aggPc = "crashed"
    /\ queue_counts # <<>> /\ IsNone(queue_counts[Len(queue_counts)])
    /\ Quiescent

RecordsWaiting(q) == Cardinality({k \in 1..Len(q) : ~IsNone(q[k])})

\* Every record of a stream of more than one record is waiting on q at once.
FullStreamBuffered(q) == Len(stream) > 1 /\ RecordsWaiting(q) = Len(stream)

\* C18: the hand-off queues are bounded by a capacity that does not grow with
\* the input: a fast reader cannot have the full stream waiting on the counting
\* queue or the archive queue ahead of a slow aggregator or archive writer.
C18_QueuesBounded ==
    /\ ~FullStreamBuffered(queue_counts)
    /\ ~FullStreamBuffered(queue_paf)

\* C19: the archive is one continuous compressed stream: for any number of
\* batches written, the final partial batch included, the archive file holds a
\* single compressed frame, not one independent frame per batch.
C19_SingleFrame ==
    save_pafs =>
        /\ Len(archive) <= 1
        /\ (pafPc = "done" /\ stream # <<>>) => Len(archive) = 1

\* minimap2 waits for room in the stderr pipe, the reader waits for the next
\* line of stdout, main waits in thread_parser_counts.join(), and no thread or
\* process can take a step.
StderrDeadlock ==
    /\ srcPc = "running" /\ err_todo > 0 /\ err_buf = PipeCapacity
    /\ readerPc = "read" /\ rpos = emitted /\ ~stdoutClosed
    /\ mainPc = "join_counts"
    /\ ~ENABLED NextStderr

\* C20: for any amount of diagnostic text minimap2 writes to its stderr pipe
\* the pipeline is never left with minimap2 blocked on stderr, the reader
\* blocked on stdout and main blocked on the join.
C20_NoStderrDeadlock == ~StderrDeadlock

====
